---------------------------- MODULE Spec2Model ----------------------------
(***************************************************************************)
(* Model of src/switch.py: the Switchmate BLE client (class Switchmate)    *)
(* running on a single asyncio event loop, with the module-wide            *)
(* CONNECT_LOCK and an unreliable bleak transport.                         *)
(*                                                                         *)
(* One coroutine runs at a time.  Once resumed it executes its code, line  *)
(* after line, until it suspends: on a transport call, on a contended      *)
(* lock, or at the return of its call.  Each action of the model is one    *)
(* such run (operator Run), started by a call, by the transport's answer   *)
(* or by the grant of the lock.  The transport answers a pending call with *)
(* success or with one of the two exceptions the code names.               *)
(***************************************************************************)
EXTENDS Integers, Sequences, FiniteSets, TLC

\* ------------------------------------------------------------------ bounds

\* Calls of update / turn_on / turn_off made in all.
MaxCalls == 2

\* ------------------------------------------------------- the configuration

\* Switchmate instances, "A" constructed with flip_on_off = False and "B"
\* with True, and the coroutines of their callers: each call is a method of
\* either instance, so two calls in progress are on one instance or on two.
Sessions == {"A", "B"}
Tasks == {"t1", "t2"}

NoTask == "none"
NoExc == "none"

\* An optional value: <<>> is Python's None, <<x>> is the value x.
None == <<>>
Some(x) == <<x>>

\* ---------------------------------------------------- constants of the code

ON_KEY == <<1>>
OFF_KEY == <<0>>

\* The exceptions the transport raises.
Excs == {"BleakError", "TimeoutError"}

\* Bytes a read of the command characteristic may return: off, on, another
\* value.
Payloads == {<<0>>, <<1>>, <<2>>}

\* Answers to the model probe (a read of handle 21): the marker, nothing,
\* another six bytes.
ProbePayloads == {"Bright", "", "Origin"}

ProbeHandle == 21

\* ------------------------------------------------------------------- state

VARIABLES
    \* Switchmate fields, per instance
    flip,        \* _flip_on_off
    state,       \* state
    available,   \* available
    handle,      \* _handle: None or Some(45 / 47)
    gen,         \* _device: 0 is None, n is the n-th BleakClient created
    live,        \* the BleakClient objects of the instance whose link is up
    \* CONNECT_LOCK (asyncio.Lock), per lock
    holder,      \* the coroutine holding it, or NoTask
    waiters,     \* the FIFO of coroutines waiting for it
    \* the event loop
    running,     \* the coroutine that is executing, or NoTask
    \* per coroutine
    sess,        \* the instance (self) of its call
    pc,          \* its position in the code
    key,         \* _communicate's key argument
    retry,       \* _communicate's retry argument of the current frame
    exc,         \* the exception being raised, or NoExc
    req,         \* the transport call it awaits, or None
    rx,          \* the payload the transport last returned to it, or None
    result,      \* the value its call returned
    calls,       \* the calls made so far, by all callers
    \* history
    call,        \* per coroutine, of its current call: the method, the
                 \* _communicate frames entered, each finished attempt's
                 \* outcome, and in the current attempt the _connect calls,
                 \* the transport connects and the reads or writes issued,
                 \* what _connect returned, and while _connect executes
                 \* the client it found (0: none) and what its _disconnect
                 \* returned
    state0,      \* per coroutine: state as it would be without its call
    raisedOut,   \* per coroutine: the functions an exception left
    firstHandle, \* per instance: _handle when _connect first returned True
    torn,        \* per instance: the clients whose disconnect was issued
                 \* and has finished
    \* the device, per instance
    byte,        \* the value of its command characteristic
    lastCmd      \* the method whose write it last acknowledged, or "none"

vars == <<flip, state, available, handle, gen, live, holder, waiters, running,
          sess, pc, key, retry, exc, req, rx, result, calls, call, state0,
          raisedOut, firstHandle, torn, byte, lastCmd>>

\* The state as one record, which the code's steps transform.
Cur == [flip |-> flip, state |-> state, available |-> available,
        handle |-> handle, gen |-> gen, live |-> live, holder |-> holder,
        waiters |-> waiters, running |-> running, sess |-> sess, pc |-> pc,
        key |-> key,
        retry |-> retry, exc |-> exc, req |-> req, rx |-> rx,
        result |-> result, calls |-> calls, call |-> call, state0 |-> state0,
        raisedOut |-> raisedOut, firstHandle |-> firstHandle, torn |-> torn,
        byte |-> byte, lastCmd |-> lastCmd]

Becomes(st) ==
    /\ flip' = st.flip
    /\ state' = st.state
    /\ available' = st.available
    /\ handle' = st.handle
    /\ gen' = st.gen
    /\ live' = st.live
    /\ holder' = st.holder
    /\ waiters' = st.waiters
    /\ running' = st.running
    /\ sess' = st.sess
    /\ pc' = st.pc
    /\ key' = st.key
    /\ retry' = st.retry
    /\ exc' = st.exc
    /\ req' = st.req
    /\ rx' = st.rx
    /\ result' = st.result
    /\ calls' = st.calls
    /\ call' = st.call
    /\ state0' = st.state0
    /\ raisedOut' = st.raisedOut
    /\ firstHandle' = st.firstHandle
    /\ torn' = st.torn
    /\ byte' = st.byte
    /\ lastCmd' = st.lastCmd

NoCall == [kind |-> "none", attempt |-> 0, hist |-> <<>>, conns |-> 0,
           links |-> 0, ios |-> 0, connRet |-> None, discRet |-> None,
           found |-> 0]

\* ----------------------------------------------------------------- helpers

\* self._device is not None and self._device.is_connected
IsConnected(st, s) == st.gen[s] # 0 /\ st.gen[s] \in st.live[s]

\* (variant: the key is never taken as given)
TruthyNever(k) == FALSE

\* Python's truth value of the key argument: None and b"" are false.
Truthy(k) == k # None /\ Len(k[1]) > 0

\* (variant: a lock of the instance's own)
GatePerInstance(st, t) == st.sess[t]

\* The lock every Switchmate instance uses.
Gate(st, t) == "CONNECT_LOCK"

Locks == {"CONNECT_LOCK"} \cup Sessions

\* (variant: the lock is released on the normal path only)
HolderKeptOnRaise(t, raised) == IF raised THEN t ELSE NoTask

\* The holder of the lock once `async with` is left, normally or by an
\* exception.
HolderAfterExit(t, raised) == NoTask

\* The except clauses of _connect, _disconnect and _communicate.
ConnectExcept == {"BleakError", "TimeoutError"}
\* (variant: _disconnect catches BleakError only)
DisconnectExceptBleakOnly == {"BleakError"}
DisconnectExcept == {"BleakError", "TimeoutError"}
CommunicateExcept == {"BleakError", "TimeoutError"}

\* (variant: the old client is torn down only when it is connected)
NeedsTeardownIfConnected(st, s) == st.gen[s] # 0 /\ st.gen[s] \in st.live[s]

\* _connect tears the old client down first when there is one.
NeedsTeardown(st, s) == st.gen[s] # 0

\* (variant: every connect probes)
ProbeAlways(st, s) == TRUE

\* if self._handle is None: the probe is made only while _handle is unknown.
ProbeNeeded(st, s) == st.handle[s] = None

\* (variant: the two handles exchanged)
HandleForSwapped(payload) == IF payload = "Bright" THEN 45 ELSE 47

\* The handle the probe's answer selects.
HandleFor(payload) == IF payload = "Bright" THEN 47 ELSE 45

\* (variant: the comparison ignores flip_on_off)
StateFromPayloadNoFlip(payload, f) == payload = ON_KEY

\* The state a read of the command characteristic yields.
StateFromPayload(payload, f) == payload = (IF ~f THEN ON_KEY ELSE OFF_KEY)

\* (variant: turn_on ignores flip_on_off)
TurnOnKeyNoFlip(f) == ON_KEY

\* The keys turn_on and turn_off send.
TurnOnKey(f) == IF ~f THEN ON_KEY ELSE OFF_KEY
TurnOffKey(f) == IF ~f THEN OFF_KEY ELSE ON_KEY

\* (variant: the retry retries)
NestedRetryAgain == TRUE

\* The retry argument of the call _communicate makes of itself.
NestedRetry == FALSE

\* (variant: a failed attempt that is retried clears available)
AvailableOnRetryCleared(st, s) == FALSE

\* available when the except clause retries: not assigned.
AvailableOnRetry(st, s) == st.available[s]

\* (variants: giving up clears state; giving up reports available)
StateOnGiveUpCleared(st, s) == FALSE
AvailableOnGiveUpKept == TRUE

\* state and available when _communicate gives up.
StateOnGiveUp(st, s) == st.state[s]
AvailableOnGiveUp == FALSE

\* The transport call a coroutine awaits.
Request(o, c, h, d, a) == [op |-> o, client |-> c, handle |-> h, data |-> d, ack |-> a]

\* state0 once coroutine t has stored v in its instance's state: the other
\* calls in progress on the instance see v as the state they found.
Stored(st, t, v) ==
    [u \in Tasks |-> IF u # t /\ st.sess[u] = st.sess[t] /\ st.pc[u] # "idle"
                     THEN v ELSE st.state0[u]]

\* ---------------------------------------------------------------- the gate

\* asyncio.Lock.acquire: taken at once when free and nobody waits, else the
\* caller queues and suspends.
Acquire(st, t, gotPc, waitPc) ==
    LET g == Gate(st, t) IN
    IF st.holder[g] = NoTask /\ st.waiters[g] = <<>>
    THEN [st EXCEPT !.holder[g] = t, !.pc[t] = gotPc]
    ELSE [st EXCEPT !.waiters[g] = Append(@, t), !.pc[t] = waitPc,
                    !.running = NoTask]

\* Leaving `async with CONNECT_LOCK`.
Release(st, t) ==
    [st EXCEPT !.holder[Gate(st, t)] =
        IF @ = t THEN HolderAfterExit(t, st.exc[t] # NoExc) ELSE @]

WaitPcs == {"disc_wait", "conn_wait", "comm_wait"}
GotPc(p) == CASE p = "disc_wait" -> "disc_call"
              [] p = "conn_wait" -> "conn_call"
              [] p = "comm_wait" -> "comm_call"

\* ------------------------------------------------------------ _communicate

\* The head of the try block: connect unless the client is connected.
CommTry(st, t) ==
    [st EXCEPT !.call[t].attempt = @ + 1, !.call[t].conns = 0,
               !.call[t].links = 0, !.call[t].ios = 0,
               !.call[t].connRet = None, !.call[t].discRet = None,
               !.call[t].found = 0,
               !.pc[t] = IF ~IsConnected(st, st.sess[t])
                         THEN "connect_entry" ELSE "comm_lock"]

\* async with CONNECT_LOCK, around the read or write.
CommLock(st, t) == Acquire(st, t, "comm_call", "comm_wait")

\* The write of the key, or the read of the state, is issued.
CommCall(st, t) ==
    LET s == st.sess[t]
        r == IF Truthy(st.key[t])
             THEN Request("write", st.gen[s], st.handle[s], st.key[t], TRUE)
             ELSE Request("read", st.gen[s], st.handle[s], None, FALSE)
    IN [st EXCEPT !.req[t] = Some(r), !.call[t].ios = @ + 1,
                  !.pc[t] = "io_await", !.running = NoTask]

\* The lock is left; on success available is set and True is returned.
CommExit(st, t) ==
    LET s == st.sess[t]
        u == Release(st, t)
    IN IF st.exc[t] = NoExc
       THEN [u EXCEPT !.available[s] = TRUE, !.result[t] = Some(TRUE),
                      !.call[t].hist = Append(@, "ok"), !.pc[t] = "done"]
       ELSE [u EXCEPT !.pc[t] = "comm_except"]

\* The except clause: retry once, else give up.
CommExcept(st, t) ==
    LET s == st.sess[t]
        u == [st EXCEPT !.call[t].hist = Append(@, "fail")]
    IN IF st.exc[t] \notin CommunicateExcept
       THEN [u EXCEPT !.pc[t] = "crashed", !.running = NoTask,
                      !.raisedOut[t] = @ \cup {"_communicate"}]
       ELSE IF st.retry[t]
       THEN [u EXCEPT !.exc[t] = NoExc, !.retry[t] = NestedRetry,
                      !.available[s] = AvailableOnRetry(st, s),
                      !.pc[t] = "comm_try"]
       ELSE [u EXCEPT !.exc[t] = NoExc,
                      !.available[s] = AvailableOnGiveUp,
                      !.state[s] = StateOnGiveUp(st, s),
                      !.state0 = Stored(st, t, StateOnGiveUp(st, s)),
                      !.result[t] = Some(FALSE), !.pc[t] = "done"]

\* ---------------------------------------------------------------- _connect

\* if self._device is not None: await self._disconnect()
ConnectEntry(st, t) ==
    [st EXCEPT !.call[t].conns = @ + 1,
               !.call[t].found = st.gen[st.sess[t]],
               !.pc[t] = IF NeedsTeardown(st, st.sess[t])
                         THEN "disc_lock" ELSE "connect_new"]

\* self._device = bleak.BleakClient(self._mac): a new, unconnected client.
ConnectNew(st, t) ==
    [st EXCEPT !.gen[st.sess[t]] = @ + 1, !.pc[t] = "conn_lock"]

\* async with CONNECT_LOCK, around connect and the probe.
ConnLock(st, t) == Acquire(st, t, "conn_call", "conn_wait")

\* await self._device.connect() is issued.
ConnCall(st, t) ==
    LET r == Request("connect", st.gen[st.sess[t]], None, None, FALSE)
    IN [st EXCEPT !.req[t] = Some(r), !.call[t].links = @ + 1,
                  !.pc[t] = "conn_await", !.running = NoTask]

\* if self._handle is None: read characteristic 21.
ConnProbe(st, t) ==
    LET s == st.sess[t]
        r == Request("probe", st.gen[s], Some(ProbeHandle), None, FALSE)
    IN IF ProbeNeeded(st, s)
       THEN [st EXCEPT !.req[t] = Some(r), !.pc[t] = "probe_await",
                       !.running = NoTask]
       ELSE [st EXCEPT !.pc[t] = "conn_exit"]

\* The lock is left and _connect returns: True, or False from its except
\* clause, on which _communicate raises BleakError.
ConnExit(st, t) ==
    LET s == st.sess[t]
        u == [Release(st, t) EXCEPT !.call[t].discRet = None,
                                    !.call[t].found = 0]
    IN IF st.exc[t] = NoExc
       THEN [u EXCEPT !.call[t].connRet = Some(TRUE),
                      !.firstHandle[s] = IF @ = None THEN st.handle[s] ELSE @,
                      !.pc[t] = "comm_lock"]
       ELSE IF st.exc[t] \in ConnectExcept
       THEN [u EXCEPT !.call[t].connRet = Some(FALSE),
                      !.exc[t] = "BleakError", !.pc[t] = "comm_except"]
       ELSE [u EXCEPT !.raisedOut[t] = @ \cup {"_connect"},
                      !.pc[t] = "comm_except"]

\* ------------------------------------------------------------- _disconnect

\* async with CONNECT_LOCK, around disconnect.
DiscLock(st, t) == Acquire(st, t, "disc_call", "disc_wait")

\* await self._device.disconnect() is issued, on the client the instance
\* holds now.
DiscCall(st, t) ==
    LET r == Request("disconnect", st.gen[st.sess[t]], None, None, FALSE)
    IN [st EXCEPT !.req[t] = Some(r), !.pc[t] = "disc_await",
                  !.running = NoTask]

\* The lock is left and _disconnect returns True, or False from its except
\* clause; _connect ignores the value and goes on.
DiscExit(st, t) ==
    LET u == Release(st, t)
    IN IF st.exc[t] = NoExc \/ st.exc[t] \in DisconnectExcept
       THEN [u EXCEPT !.call[t].discRet = Some(st.exc[t] = NoExc),
                      !.exc[t] = NoExc, !.pc[t] = "connect_new"]
       ELSE [u EXCEPT !.raisedOut[t] = @ \cup {"_disconnect", "_connect"},
                      !.pc[t] = "comm_except"]

\* ------------------------------------------------------------ the coroutine

\* The code at the coroutine's position.
Line(st, t) ==
    CASE st.pc[t] = "comm_try" -> CommTry(st, t)
      [] st.pc[t] = "comm_lock" -> CommLock(st, t)
      [] st.pc[t] = "comm_call" -> CommCall(st, t)
      [] st.pc[t] = "comm_exit" -> CommExit(st, t)
      [] st.pc[t] = "comm_except" -> CommExcept(st, t)
      [] st.pc[t] = "connect_entry" -> ConnectEntry(st, t)
      [] st.pc[t] = "connect_new" -> ConnectNew(st, t)
      [] st.pc[t] = "conn_lock" -> ConnLock(st, t)
      [] st.pc[t] = "conn_call" -> ConnCall(st, t)
      [] st.pc[t] = "conn_probe" -> ConnProbe(st, t)
      [] st.pc[t] = "conn_exit" -> ConnExit(st, t)
      [] st.pc[t] = "disc_lock" -> DiscLock(st, t)
      [] st.pc[t] = "disc_call" -> DiscCall(st, t)
      [] st.pc[t] = "disc_exit" -> DiscExit(st, t)

\* The coroutine executes until it suspends or its call returns.
RECURSIVE Run(_, _)
Run(st, t) ==
    IF st.running # t \/ st.pc[t] = "done"
    THEN st
    ELSE CHOOSE r \in {Run(next, t) : next \in {Line(st, t)}} : TRUE

\* The coroutine executes from st and the program is in the state it
\* reaches.
Resume(st, t) == \E r \in {Run(st, t)} : Becomes(r)

\* -------------------------------------------------------------------- Init

Init ==
    /\ flip = [s \in Sessions |-> s = "B"]
    /\ state = [s \in Sessions |-> FALSE]
    /\ available = [s \in Sessions |-> FALSE]
    /\ handle = [s \in Sessions |-> None]
    /\ gen = [s \in Sessions |-> 0]
    /\ live = [s \in Sessions |-> {}]
    /\ holder = [l \in Locks |-> NoTask]
    /\ waiters = [l \in Locks |-> <<>>]
    /\ running = NoTask
    /\ sess = [t \in Tasks |-> "A"]
    /\ pc = [t \in Tasks |-> "idle"]
    /\ key = [t \in Tasks |-> None]
    /\ retry = [t \in Tasks |-> TRUE]
    /\ exc = [t \in Tasks |-> NoExc]
    /\ req = [t \in Tasks |-> None]
    /\ rx = [t \in Tasks |-> None]
    /\ result = [t \in Tasks |-> None]
    /\ calls = 0
    /\ call = [t \in Tasks |-> NoCall]
    /\ state0 = [t \in Tasks |-> FALSE]
    /\ raisedOut = [t \in Tasks |-> {}]
    /\ firstHandle = [s \in Sessions |-> None]
    /\ torn = [s \in Sessions |-> {}]
    /\ byte = [s \in Sessions |-> OFF_KEY]
    /\ lastCmd = [s \in Sessions |-> "none"]

\* ----------------------------------------------- update, turn_on, turn_off

\* A caller starts method m of instance s, which calls _communicate(k) with
\* retry = True.
Call(t, s, m, k) ==
    /\ running = NoTask
    /\ pc[t] = "idle"
    /\ calls < MaxCalls
    /\ Resume([Cur EXCEPT !.running = t, !.sess[t] = s,
                          !.pc[t] = "comm_try",
                          !.key[t] = k, !.retry[t] = TRUE,
                          !.calls = @ + 1,
                          !.call[t] = [NoCall EXCEPT !.kind = m],
                          !.state0[t] = state[s]], t)

Update(t, s) == Call(t, s, "update", None)
TurnOn(t, s) == Call(t, s, "turn_on", Some(TurnOnKey(flip[s])))
TurnOff(t, s) == Call(t, s, "turn_off", Some(TurnOffKey(flip[s])))

\* The call has returned; the caller's coroutine ends.
Return(t) ==
    /\ running = t
    /\ pc[t] = "done"
    /\ Becomes([Cur EXCEPT !.running = NoTask, !.pc[t] = "idle",
                           !.sess[t] = "A", !.key[t] = None, !.retry[t] = TRUE, !.rx[t] = None,
                           !.result[t] = None, !.call[t] = NoCall,
                           !.state0[t] = FALSE])

\* The lock is free and the first waiter resumes with it.
Grant(t) ==
    LET g == Gate(Cur, t) IN
    /\ running = NoTask
    /\ pc[t] \in WaitPcs
    /\ holder[g] = NoTask
    /\ waiters[g] # <<>>
    /\ Head(waiters[g]) = t
    /\ Resume([Cur EXCEPT !.holder[g] = t, !.waiters[g] = Tail(@),
                          !.pc[t] = GotPc(pc[t]), !.running = t], t)

\* ------------------------------------------------------------ the transport

\* The transport's answer resumes the coroutine at position p.
Resumed(t, p) == [Cur EXCEPT !.running = t, !.req[t] = None, !.rx[t] = None,
                             !.pc[t] = p]

Raised(t, p, e) == [Resumed(t, p) EXCEPT !.exc[t] = e]

\* The link is torn down.
DisconnectDone(t) ==
    LET s == sess[t]
        c == req[t][1].client
    IN /\ running = NoTask
       /\ pc[t] = "disc_await"
       /\ Resume([Resumed(t, "disc_exit") EXCEPT
                     !.live[s] = @ \ {c}, !.torn[s] = @ \cup {c}], t)

\* disconnect raises; the link stays as it was.
DisconnectFail(t, e) ==
    LET s == sess[t]
        c == req[t][1].client
    IN /\ running = NoTask
       /\ pc[t] = "disc_await"
       /\ Resume([Raised(t, "disc_exit", e) EXCEPT
                     !.torn[s] = @ \cup {c}], t)

\* The link comes up.
ConnectDone(t) ==
    LET s == sess[t]
        c == req[t][1].client
    IN /\ running = NoTask
       /\ pc[t] = "conn_await"
       /\ Resume([Resumed(t, "conn_probe") EXCEPT
                     !.live[s] = @ \cup {c}], t)

\* connect raises.
ConnectFail(t, e) ==
    /\ running = NoTask
    /\ pc[t] = "conn_await"
    /\ Resume(Raised(t, "conn_exit", e), t)

\* The probe answers, and the answer selects the handle.
ProbeDone(t, payload) ==
    LET s == sess[t] IN
    /\ running = NoTask
    /\ pc[t] = "probe_await"
    /\ req[t][1].client \in live[s]
    /\ Resume([Resumed(t, "conn_exit") EXCEPT
                  !.rx[t] = Some([op |-> "probe", data |-> payload]),
                  !.handle[s] = Some(HandleFor(payload))], t)

\* The probe raises.
ProbeFail(t, e) ==
    /\ running = NoTask
    /\ pc[t] = "probe_await"
    /\ Resume(Raised(t, "conn_exit", e), t)

\* A read or write succeeds only on a connected client and a handle the
\* device has.
CanSucceed(t) ==
    LET r == req[t][1] IN
    /\ r.client \in live[sess[t]]
    /\ r.handle # None

\* The transport acknowledges the write.
WriteDone(t) ==
    /\ running = NoTask
    /\ pc[t] = "io_await"
    /\ req[t][1].op = "write"
    /\ CanSucceed(t)
    /\ Resume(Resumed(t, "comm_exit"), t)

\* The transport returns the characteristic's value, which becomes state.
ReadDone(t, payload) ==
    LET s == sess[t]
        v == StateFromPayload(payload, flip[s])
    IN /\ running = NoTask
       /\ pc[t] = "io_await"
       /\ req[t][1].op = "read"
       /\ CanSucceed(t)
       /\ Resume([Resumed(t, "comm_exit") EXCEPT
                     !.rx[t] = Some([op |-> "read", data |-> payload]),
                     !.state[s] = v,
                     !.state0 = Stored(Cur, t, v)], t)

\* The read or write raises; a call without a handle raises BleakError.
IOFail(t, e) ==
    /\ running = NoTask
    /\ pc[t] = "io_await"
    /\ req[t][1].handle = None => e = "BleakError"
    /\ Resume(Raised(t, "comm_exit", e), t)

\* The link of a connected client drops; is_connected turns False.
LinkDrop(s) ==
    /\ running = NoTask
    /\ \E c \in live[s] : Becomes([Cur EXCEPT !.live[s] = @ \ {c}])

\* ------------------------------------------------------- the specification

\* What coroutine t does once called.
Step(t) ==
    \/ Return(t)
    \/ Grant(t)

\* The transport answers t's pending call.
Answer(t) ==
    \/ DisconnectDone(t)
    \/ \E e \in Excs : DisconnectFail(t, e)
    \/ ConnectDone(t)
    \/ \E e \in Excs : ConnectFail(t, e)
    \/ \E p \in ProbePayloads : ProbeDone(t, p)
    \/ \E e \in Excs : ProbeFail(t, e)
    \/ WriteDone(t)
    \/ \E p \in Payloads : ReadDone(t, p)
    \/ \E e \in Excs : IOFail(t, e)

Next ==
    \/ \E t \in Tasks, s \in Sessions : Update(t, s)
    \/ \E t \in Tasks, s \in Sessions : TurnOn(t, s)
    \/ \E t \in Tasks, s \in Sessions : TurnOff(t, s)
    \/ \E t \in Tasks : Step(t)
    \/ \E t \in Tasks : Answer(t)
    \/ \E s \in Sessions : LinkDrop(s)

Spec == Init /\ [][Next]_vars

\* Every transport call is answered and every runnable coroutine runs.
FairSpec ==
    /\ Spec
    /\ \A t \in Tasks : WF_vars(Step(t))
    /\ \A t \in Tasks : WF_vars(Answer(t))


\* A device that stores the byte of a write it acknowledges.
EchoWriteDone(t) ==
    LET s == sess[t] IN
    /\ running = NoTask
    /\ pc[t] = "io_await"
    /\ req[t][1].op = "write"
    /\ CanSucceed(t)
    /\ Resume([Resumed(t, "comm_exit") EXCEPT
                  !.byte[s] = req[t][1].data[1],
                  !.lastCmd[s] = call[t].kind], t)

\* A device that returns the stored byte to a read.
EchoReadDone(t) == ReadDone(t, byte[sess[t]])

\* The transport's answers when the device reads back the last byte
\* written.
EchoAnswer(t) ==
    \/ DisconnectDone(t)
    \/ \E e \in Excs : DisconnectFail(t, e)
    \/ ConnectDone(t)
    \/ \E e \in Excs : ConnectFail(t, e)
    \/ \E p \in ProbePayloads : ProbeDone(t, p)
    \/ \E e \in Excs : ProbeFail(t, e)
    \/ EchoWriteDone(t)
    \/ EchoReadDone(t)
    \/ \E e \in Excs : IOFail(t, e)

EchoNext ==
    \/ \E t \in Tasks, s \in Sessions : Update(t, s)
    \/ \E t \in Tasks, s \in Sessions : TurnOn(t, s)
    \/ \E t \in Tasks, s \in Sessions : TurnOff(t, s)
    \/ \E t \in Tasks : Step(t)
    \/ \E t \in Tasks : EchoAnswer(t)
    \/ \E s \in Sessions : LinkDrop(s)

\* The program with a device that reads back the last byte written.
EchoSpec == Init /\ [][EchoNext]_vars

\* A read or write is refused because its client is not connected.
NotConnectedFail(t) ==
    /\ pc[t] = "io_await"
    /\ req[t][1].client \notin live[sess[t]]
    /\ IOFail(t, "BleakError")

\* A transport that never fails a connect, a disconnect or the probe, and
\* fails a read or write only on a client that is not connected.
HealthyAnswer(t) ==
    \/ DisconnectDone(t)
    \/ ConnectDone(t)
    \/ \E p \in ProbePayloads : ProbeDone(t, p)
    \/ WriteDone(t)
    \/ \E p \in Payloads : ReadDone(t, p)
    \/ NotConnectedFail(t)

HealthyNext ==
    \/ \E t \in Tasks, s \in Sessions : Update(t, s)
    \/ \E t \in Tasks, s \in Sessions : TurnOn(t, s)
    \/ \E t \in Tasks, s \in Sessions : TurnOff(t, s)
    \/ \E t \in Tasks : Step(t)
    \/ \E t \in Tasks : HealthyAnswer(t)

\* The program on a link that stays up and a transport that is healthy.
HealthySpec == Init /\ [][HealthyNext]_vars

\* ------------------------------------------------------------ the claims

InFlight == {t \in Tasks : req[t] # None}
Returned(t) == pc[t] = "done"
AllFailed(h) == \A i \in 1..Len(h) : h[i] = "fail"
SomeOk(h) == \E i \in 1..Len(h) : h[i] = "ok"

\* C1: at most one transport call (connect, disconnect, probe read, read,
\* write) is in flight at any instant, over all instances and callers, and
\* the coroutine that issued it holds CONNECT_LOCK.
C1_MutualExclusion ==
    /\ Cardinality(InFlight) <= 1
    /\ \A t \in InFlight : holder["CONNECT_LOCK"] = t

\* Two calls on different instances, one with its transport call in flight
\* and the other waiting for the lock.
C1_Witness ==
    \E t, u \in Tasks :
        /\ sess[t] # sess[u]
        /\ req[t] # None
        /\ pc[u] \in WaitPcs

\* C2: a call makes at most 2 attempts, each with at most one _connect, one
\* transport connect and one read or write; the second attempt is made only
\* after the first failed, runs with retry = False, and is then the only
\* attempt of that nested call: a returned call has finished 1 attempt, or
\* 2 of which the first failed.
C2_RetryBudget ==
    \A t \in Tasks :
        LET c == call[t] IN
        /\ c.attempt <= 2
        /\ Len(c.hist) <= c.attempt
        /\ c.conns <= 1 /\ c.links <= c.conns /\ c.ios <= 1
        /\ c.attempt >= 1 => (retry[t] <=> c.attempt = 1)
        /\ c.attempt = 2 => Len(c.hist) >= 1 /\ c.hist[1] = "fail"
        /\ Returned(t) => /\ c.attempt >= 1
                          /\ Len(c.hist) = c.attempt

\* A call that returned after two attempts, the second with a reconnect and
\* a read or write.
C2_Witness ==
    \E t \in Tasks :
        /\ Returned(t)
        /\ call[t].attempt = 2
        /\ call[t].links = 1
        /\ call[t].ios = 1

\* C3: when a call returns, it returns False with available = False exactly
\* when both attempts failed, and True with available = True when an
\* attempt succeeded (the first, or the retry after a failed first).
C3_Availability ==
    \A t \in Tasks :
        Returned(t) =>
            LET h == call[t].hist
                s == sess[t]
            IN /\ result[t] \in {Some(TRUE), Some(FALSE)}
               /\ result[t] = Some(FALSE) <=> (Len(h) = 2 /\ AllFailed(h))
               /\ result[t] = Some(TRUE) <=> SomeOk(h)
               /\ available[s] <=> result[t] = Some(TRUE)

\* turn_on whose first attempt failed and whose retry succeeded, on an
\* instance that was unavailable.
C3_Witness ==
    \E t \in Tasks :
        /\ Returned(t)
        /\ call[t].kind = "turn_on"
        /\ call[t].hist = <<"fail", "ok">>
        /\ result[t] = Some(TRUE)
        /\ available[sess[t]]

\* C4: when both attempts of a call fail, it returns False, available is
\* False and state is what it was before the call (as left by the calls
\* that finished a read meanwhile).
C4_StateUnchangedOnFailure ==
    \A t \in Tasks :
        (Returned(t) /\ result[t] = Some(FALSE)) =>
            /\ call[t].hist = <<"fail", "fail">>
            /\ ~available[sess[t]]
            /\ state[sess[t]] = state0[t]

\* An update that failed twice on an instance whose state was True.
C4_Witness ==
    \E t \in Tasks :
        /\ Returned(t)
        /\ result[t] = Some(FALSE)
        /\ call[t].kind = "update"
        /\ state[sess[t]]

\* C5: whatever the transport raises in connect, disconnect, read or write,
\* no exception leaves _connect, _disconnect or _communicate: each returns
\* a boolean.
C5_NoEscape ==
    \A t \in Tasks :
        /\ pc[t] # "crashed"
        /\ raisedOut[t] = {}
        /\ call[t].connRet \in {None, Some(TRUE), Some(FALSE)}
        /\ call[t].discRet \in {None, Some(TRUE), Some(FALSE)}
        /\ Returned(t) => result[t] \in {Some(TRUE), Some(FALSE)}

\* A call that returned False after the connect of its retry failed.
C5_Witness ==
    \E t \in Tasks :
        /\ Returned(t)
        /\ result[t] = Some(FALSE)
        /\ call[t].attempt = 2
        /\ call[t].connRet = Some(FALSE)

\* The teardown inside the _connect of a retry has raised and _disconnect
\* has returned False.
C5_TeardownFailed ==
    \E t \in Tasks :
        /\ call[t].attempt = 2
        /\ call[t].discRet = Some(FALSE)

\* The byte turn_on and turn_off are to send under either polarity.
Wanted(m, f) ==
    CASE m = "turn_on" -> IF f THEN <<0>> ELSE <<1>>
      [] m = "turn_off" -> IF f THEN <<1>> ELSE <<0>>
      [] OTHER -> <<>>

IsWrite(t) == req[t] # None /\ req[t][1].op = "write"
IsRead(t) == req[t] # None /\ req[t][1].op = "read"
Resolved == {Some(45), Some(47)}

\* C6: every write turn_on issues carries 0x01 (0x00 when flip_on_off), every
\* write turn_off issues carries 0x00 (0x01 when flip_on_off), in the first
\* attempt and in the retry alike; it asks for a response and goes to the
\* resolved command handle, 45 or 47.
C6_CommandWrites ==
    \A t \in Tasks :
        IsWrite(t) =>
            /\ call[t].kind \in {"turn_on", "turn_off"}
            /\ req[t][1].data = Some(Wanted(call[t].kind, flip[sess[t]]))
            /\ req[t][1].ack
            /\ req[t][1].handle \in Resolved

\* C6, without the handle: the byte and the response flag of every write.
C6_Polarity ==
    \A t \in Tasks :
        IsWrite(t) =>
            /\ call[t].kind \in {"turn_on", "turn_off"}
            /\ req[t][1].data = Some(Wanted(call[t].kind, flip[sess[t]]))
            /\ req[t][1].ack

\* The payload of the read that a returned, successful update made.
ReadBy(t) == rx[t][1].data
UpdateRead(t) ==
    /\ Returned(t)
    /\ call[t].kind = "update"
    /\ result[t] = Some(TRUE)
    /\ rx[t] # None
    /\ rx[t][1].op = "read"

\* C7 as stated: after a successful update, state is (payload = 0x01) XOR
\* flip_on_off, for every payload.
C7_StateIsXor ==
    \A t \in Tasks :
        UpdateRead(t) => (state[sess[t]] <=> ((ReadBy(t) = <<1>>) # flip[sess[t]]))

\* C7, amended: after a successful update, state is (payload = 0x01) XOR
\* flip_on_off for the payloads 0x00 and 0x01, and False for any other
\* payload under either polarity.
C7_StateFromRead ==
    \A t \in Tasks :
        UpdateRead(t) =>
            IF ReadBy(t) \in {<<0>>, <<1>>}
            THEN state[sess[t]] <=> ((ReadBy(t) = <<1>>) # flip[sess[t]])
            ELSE ~state[sess[t]]

\* A successful update that read another byte than 0x00 and 0x01 with
\* flip_on_off set.
C7_Witness ==
    \E t \in Tasks :
        /\ UpdateRead(t)
        /\ ReadBy(t) = <<2>>
        /\ flip[sess[t]]

\* A successful update that read 0x00 with flip_on_off set: state is True.
C7_FlippedOn ==
    \E t \in Tasks :
        /\ UpdateRead(t)
        /\ ReadBy(t) = <<0>>
        /\ flip[sess[t]]
        /\ state[sess[t]]

\* C8: the _connect that answers a probe returns True with _handle 47 if
\* the probe read "Bright" and 45 if it read anything else; it is the first
\* _connect of the instance to return True, _handle keeps that value, and
\* every read and write issued since goes to it.
C8_ProbeResolves ==
    /\ \A t \in Tasks :
           (rx[t] # None /\ rx[t][1].op = "probe") =>
               /\ handle[sess[t]] =
                     Some(IF rx[t][1].data = "Bright" THEN 47 ELSE 45)
               /\ call[t].connRet = Some(TRUE)
               /\ firstHandle[sess[t]] = handle[sess[t]]
    /\ \A t \in Tasks : call[t].connRet = Some(TRUE) => handle[sess[t]] # None
    /\ \A s \in Sessions :
           firstHandle[s] # None =>
               /\ firstHandle[s] \in Resolved
               /\ handle[s] = firstHandle[s]
    /\ \A t \in Tasks :
           ((IsRead(t) \/ IsWrite(t)) /\ firstHandle[sess[t]] # None) =>
               req[t][1].handle = firstHandle[sess[t]]

\* A write to handle 47 in an attempt that made no connect: the handle is
\* the one an earlier connect resolved.
C8_Witness ==
    \E t \in Tasks :
        /\ IsWrite(t)
        /\ req[t][1].handle = Some(47)
        /\ call[t].links = 0
        /\ firstHandle[sess[t]] = Some(47)

\* The probe read the empty payload and the handle is 45.
C8_EmptyProbe ==
    \E t \in Tasks :
        /\ rx[t] # None
        /\ rx[t][1].op = "probe"
        /\ rx[t][1].data = ""
        /\ handle[sess[t]] = Some(45)

IsConnect(t) == req[t] # None /\ req[t][1].op = "connect"

\* C9: when _connect finds a client, the disconnect of that client has
\* been issued and has finished before the connect of a new client is
\* issued, as has the disconnect of every client replaced since; and once
\* _disconnect has returned, True or False, the connect is issued (after
\* the wait for the lock, if any), so that _connect never returns without
\* it.
C9_TeardownFirst ==
    \A t \in Tasks :
        LET c == call[t] IN
        /\ IsConnect(t) =>
               /\ \A k \in 1..(req[t][1].client - 1) : k \in torn[sess[t]]
               /\ c.found # 0 => /\ c.found \in torn[sess[t]]
                                 /\ c.found < req[t][1].client
                                 /\ c.discRet # None
        /\ c.discRet # None => (pc[t] = "conn_wait" \/ c.links = 1)
        /\ c.connRet # None => c.links = 1

\* The connect of a second client in flight after the disconnect of the
\* first one failed.
C9_Witness ==
    \E t \in Tasks :
        /\ IsConnect(t)
        /\ req[t][1].client = 2
        /\ call[t].found = 1
        /\ call[t].discRet = Some(FALSE)

GatedPcs == {"disc_await", "conn_await", "probe_await", "io_await"}

\* C10: with every transport call answered and every runnable coroutine
\* run, every call returns; a coroutine that waits for the lock resumes
\* inside the section it waited for; the lock is held only by a coroutine
\* whose transport call is pending, hence released on every way out of a
\* section and never asked for by its holder.
C10_Progress ==
    /\ \A t \in Tasks : (pc[t] # "idle") ~> (pc[t] = "idle")
    /\ [][\A t \in Tasks :
            pc[t] \in WaitPcs => pc'[t] \in WaitPcs \cup GatedPcs]_vars
    /\ [](\A l \in Locks :
            holder[l] # NoTask => /\ l = "CONNECT_LOCK"
                                  /\ pc[holder[l]] \in GatedPcs)
    /\ [](\A t \in Tasks : pc[t] \in WaitPcs =>
            \E i \in 1..Len(waiters["CONNECT_LOCK"]) :
                waiters["CONNECT_LOCK"][i] = t)

\* A caller waits for the lock while the other is in its retry, having
\* left the section of its failed first attempt by an exception.
C10_Witness ==
    \E t, u \in Tasks :
        /\ pc[t] \in WaitPcs
        /\ holder["CONNECT_LOCK"] = u
        /\ call[u].attempt = 2
        /\ call[u].hist = <<"fail">>

\* The link of the instance's client is up.
LinkUp(s) == gen[s] \in live[s]

\* C11: when _connect has returned False, whether connect raised or the
\* probe read raised, the link of the instance's client is not up.
C11_FailedConnectDown ==
    \A t \in Tasks :
        (Returned(t) /\ call[t].connRet = Some(FALSE)) => ~LinkUp(sess[t])

\* C12: once _handle is 45 or 47 it keeps that value in every later state,
\* and a probe read is in flight only while _handle is None.
C12_HandleWriteOnce ==
    /\ [][\A s \in Sessions : handle[s] # None => handle'[s] = handle[s]]_vars
    /\ [](\A s \in Sessions : handle[s] \in {None} \cup Resolved)
    /\ [](\A t \in Tasks :
            (req[t] # None /\ req[t][1].op = "probe") => handle[sess[t]] = None)

\* A read or write after a connect of this attempt that made no probe: the
\* handle was known when the link came up.
C12_Witness ==
    \E t \in Tasks :
        /\ IsRead(t) \/ IsWrite(t)
        /\ call[t].links = 1
        /\ call[t].connRet = Some(TRUE)
        /\ rx[t] = None
        /\ handle[sess[t]] \in Resolved

\* Coroutine t's call has issued a transport call already.
Began(t) ==
    \/ call[t].attempt = 2
    \/ call[t].links > 0
    \/ call[t].ios > 0
    \/ call[t].discRet # None

\* Coroutine t's call is between two of its transport calls: it has issued
\* one and waits for the lock to issue the next.
Between(t) == Began(t) /\ pc[t] \in WaitPcs

\* C13 as stated: no transport call of another instance's call is in
\* flight between two transport calls of one _communicate call.
C13_NoInterleaving ==
    \A t, u \in Tasks :
        (Between(t) /\ req[u] # None) => sess[u] = sess[t]

\* C13, amended: the calls of different instances are serialized one
\* transport call at a time. At most one transport call is in flight; while
\* one of another instance is in flight, a call in progress is queued at
\* CONNECT_LOCK, which the other holds; and the connect and its probe are
\* made in one section of the lock.
C13_SerializedPerTransportCall ==
    /\ [](Cardinality(InFlight) <= 1)
    /\ [](\A t, u \in Tasks :
            (sess[u] # sess[t] /\ req[u] # None /\ pc[t] \notin {"idle", "done"})
                => /\ pc[t] \in WaitPcs
                   /\ holder["CONNECT_LOCK"] = u
                   /\ \E i \in 1..Len(waiters["CONNECT_LOCK"]) :
                          waiters["CONNECT_LOCK"][i] = t)
    /\ [][\A t \in Tasks :
            (pc[t] = "conn_await" /\ pc'[t] = "probe_await")
                => /\ holder["CONNECT_LOCK"] = t
                   /\ holder'["CONNECT_LOCK"] = t]_vars

\* The call of one instance has made its connect and waits for the lock to
\* read or write, while a transport call of the other instance is in flight.
C13_Witness ==
    \E t, u \in Tasks :
        /\ sess[t] # sess[u]
        /\ pc[t] = "comm_wait"
        /\ call[t].connRet = Some(TRUE)
        /\ req[u] # None

\* C14: of two calls in progress on one instance, all transport calls of
\* the one requested first are made before any of the other: no transport
\* call of one is in flight between two transport calls of the other.
C14_RequestOrder ==
    \A t, u \in Tasks :
        (t # u /\ sess[t] = sess[u] /\ Between(t)) => req[u] = None

\* C15: available changes only in the step in which a _communicate call on
\* the instance reaches its return, and takes the value the call returns;
\* _connect, _disconnect and a failed attempt that is retried leave it.
C15_AvailableAtReturnOnly ==
    [][\A s \in Sessions :
          available'[s] # available[s] =>
              \E t \in Tasks :
                  /\ sess[t] = s
                  /\ pc[t] # "done"
                  /\ pc'[t] = "done"
                  /\ available'[s] = (result'[t] = Some(TRUE))]_vars

\* A call alone on its instance is in its retry after a failed first
\* attempt, with a reconnect under way, and available is still True.
C15_Witness ==
    \E t \in Tasks :
        /\ call[t].attempt = 2
        /\ call[t].hist = <<"fail">>
        /\ IsConnect(t)
        /\ available[sess[t]]
        /\ \A u \in Tasks \ {t} : pc[u] = "idle"

\* C16: every read or write that _communicate issues goes to a known
\* handle: _handle is 45 or 47 whenever one is in flight.
C16_KnownHandle ==
    \A t \in Tasks :
        (IsRead(t) \/ IsWrite(t)) =>
            /\ handle[sess[t]] \in Resolved
            /\ req[t][1].handle = handle[sess[t]]

\* C17: on a healthy transport every call returns True and leaves available
\* True, two calls in progress on one instance included.
C17_HealthyCallsSucceed ==
    \A t \in Tasks :
        Returned(t) => /\ result[t] = Some(TRUE)
                       /\ available[sess[t]]

\* C18: of the clients an instance has created, only the one it holds now
\* can be connected: at most one link is up, and no replaced client has
\* its link up.
C18_OneLiveLink ==
    \A s \in Sessions :
        /\ Cardinality(live[s]) <= 1
        /\ \A c \in live[s] : c = gen[s]

\* C19: state changes only in the step in which the read of an update
\* returns; turn_on and turn_off issue writes only, and no step of theirs
\* changes state, whether they succeed or fail.
C19_CommandsKeepState ==
    /\ [][\A s \in Sessions :
            state'[s] # state[s] =>
                \E t \in Tasks :
                    /\ sess[t] = s
                    /\ call[t].kind = "update"
                    /\ IsRead(t)
                    /\ rx'[t] # None
                    /\ rx'[t][1].op = "read"]_vars
    /\ [](\A t \in Tasks :
            /\ IsRead(t) => call[t].kind = "update"
            /\ IsWrite(t) => call[t].kind \in {"turn_on", "turn_off"})

\* A successful turn_off has returned and state is still True, the value
\* an earlier update read.
C19_Witness ==
    \E t \in Tasks :
        /\ Returned(t)
        /\ call[t].kind = "turn_off"
        /\ result[t] = Some(TRUE)
        /\ state[sess[t]]

\* C20: on a device that reads back the last byte written, the byte it
\* holds after an acknowledged write depends only on the method that wrote
\* it (so repeating turn_on or turn_off leaves it as one call does), and a
\* successful update that follows a successful turn_on with no write in
\* between leaves state True, one that follows a turn_off leaves it False,
\* with flip_on_off False and True alike.
C20_RoundTrip ==
    /\ \A s \in Sessions :
           lastCmd[s] # "none" => byte[s] = Wanted(lastCmd[s], flip[s])
    /\ \A t \in Tasks :
           (UpdateRead(t) /\ lastCmd[sess[t]] # "none") =>
               (state[sess[t]] <=> lastCmd[sess[t]] = "turn_on")

\* A successful update after a successful turn_on on the instance with
\* flip_on_off set: the device holds 0x00 and state is True.
C20_Witness ==
    \E t \in Tasks :
        /\ UpdateRead(t)
        /\ flip[sess[t]]
        /\ lastCmd[sess[t]] = "turn_on"
        /\ byte[sess[t]] = <<0>>
        /\ state[sess[t]]

=============================================================================
